---- MODULE Spec2Model ----
(***************************************************************************)
(* A model of parser.py: the text sanitizer (clean_json_text), the record  *)
(* validator (parse_comments_json_text), the schema normalizer             *)
(* (ensure_columns), the master store (load_master, save_master) and the   *)
(* run driver (main, process_folder), together with the directory and the  *)
(* files they act on.                                                      *)
(*                                                                         *)
(* Three specifications share the module:                                  *)
(*   Spec       runs of main over an input directory whose units arrive    *)
(*              between runs;                                              *)
(*   SpecParse  parse_comments_json_text applied to bounded JSON values;   *)
(*   SpecClean  clean_json_text applied to bounded texts, twice.           *)
(***************************************************************************)
EXTENDS Integers, Sequences, FiniteSets, TLC

VARIABLES
    \* ---- the file system (Spec)
    in_dir,        \* "missing" | "file" | "dir": what the --in path is
    files,         \* [UnitNames -> text]: the *_COMMENTS.txt files of in_dir
    debug_dir,     \* BOOLEAN: in_dir/_debug_bad_json exists
    debug,         \* [UnitNames -> text]: the files of the debug directory
    master,        \* the master CSV file: absent, unreadable, or header + lines
    \* ---- one run of main (Spec)
    pc,            \* "idle" | "loop" | "done" | "exit1" | "raised"
    todo,          \* the part of `files` (the glob's list) not yet iterated
    all_rows,      \* process_folder's accumulator
    \* ---- what a run has done so far, kept to state the properties
    found,         \* the glob's list, as taken
    seen,          \* [UnitNames -> text]: the directory as the glob saw it
    moved,         \* names this run moved to the debug directory
    unlinked,      \* names this run deleted
    masterBefore,  \* the master file when the run started
    master_df,     \* the table load_master returned (merge step)
    new_df,        \* the normalized batch (merge step)
    kept,          \* the positions of master_df ++ new_df that drop_duplicates kept
    saved,         \* BOOLEAN: this run called save_master
    raisedAt,      \* "" | "mkdir" | "load" | "dedupe": where the run raised
    arrivals,      \* units put into in_dir so far
    \* ---- SpecParse
    p_obj,         \* the text handed to parse_comments_json_text
    p_out,         \* what it returned
    p_pc,          \* "in" | "out"
    \* ---- SpecClean
    c_raw,         \* the text handed to clean_json_text
    c_once,        \* clean_json_text(c_raw)
    c_twice,       \* clean_json_text(clean_json_text(c_raw))
    c_pc           \* "in" | "out"

vars == << in_dir, files, debug_dir, debug, master, pc, todo, all_rows, found,
           seen, moved, unlinked, masterBefore, master_df, new_df, kept, saved,
           raisedAt, arrivals, p_obj, p_out, p_pc, c_raw, c_once,
           c_twice, c_pc >>

fsVars   == << in_dir, files, debug_dir, debug, master >>
pipeVars == << in_dir, files, debug_dir, debug, master, pc, todo, all_rows,
               found, seen, moved, unlinked, masterBefore, master_df, new_df,
               kept, saved, raisedAt, arrivals >>
parseVars == << p_obj, p_out, p_pc >>
cleanVars == << c_raw, c_once, c_twice, c_pc >>

(***************************************************************************)
(* Bounds.                                                                 *)
(***************************************************************************)
MaxElems     == 3   \* SpecParse: elements of a top-level list
MaxUnitElems == 1   \* Spec: elements of a unit's top-level list
MaxArrivals  == 2   \* Spec: units put into in_dir over a behaviour
MaxTokens    == 3   \* SpecClean: tokens of an input text

RECURSIVE SeqsUpTo(_, _)
SeqsUpTo(S, n) ==
    IF n = 0 THEN { <<>> }
    ELSE LET shorter == SeqsUpTo(S, n - 1)
         IN  shorter \cup { Append(s, e) : s \in shorter, e \in S }

(***************************************************************************)
(* JSON values.  A value of a dict is a cell [t, v]: a string, null, or a  *)
(* nested list (which Python cannot hash).                                 *)
(***************************************************************************)
S(x) == [t |-> "str", v |-> x]
Null == [t |-> "null", v |-> ""]
L(x) == [t |-> "list", v |-> x]

\* An element of a top-level list: a dict (d: key -> value) or something else.
Dict(d)  == [kind |-> "dict", d |-> d]
NonDict(k) == [kind |-> k, d |-> <<>>]

(***************************************************************************)
(* A unit's text, identified by what json.loads gives on its sanitized     *)
(* form: a syntax error (two such texts differ by `id`), or a value whose  *)
(* top level is a list of elements, an object or a scalar.                 *)
(***************************************************************************)
NoFile      == [syntax |-> "none", id |-> 0, top |-> "", elems |-> <<>>]
BadText(i)  == [syntax |-> "bad", id |-> i, top |-> "", elems |-> <<>>]
TopText(k)  == [syntax |-> "ok", id |-> 0, top |-> k, elems |-> <<>>]
ListText(es) == [syntax |-> "ok", id |-> 0, top |-> "list", elems |-> es]

(***************************************************************************)
(* parse_comments_json_text.                                               *)
(***************************************************************************)
\* json.loads on the sanitized text: raises on a syntax error.
json_loads(cleaned) ==
    [raised |-> cleaned.syntax = "bad", top |-> cleaned.top, elems |-> cleaned.elems]

\* isinstance(row, dict)
IsDict(row) == row.kind = "dict"

HasRequiredEither(row) == "video_id" \in DOMAIN row.d \/ "quote" \in DOMAIN row.d
\* the negation of: "video_id" not in row or "quote" not in row
HasRequired(row) == "video_id" \in DOMAIN row.d /\ "quote" \in DOMAIN row.d

\* for i, row in enumerate(obj): ... continue ... valid.append(row)
RECURSIVE ValidLoop(_, _, _)
ValidLoop(obj, i, valid) ==
    IF i > Len(obj) THEN valid
    ELSE IF ~IsDict(obj[i]) THEN ValidLoop(obj, i + 1, valid)
    ELSE IF ~HasRequired(obj[i]) THEN ValidLoop(obj, i + 1, valid)
    ELSE ValidLoop(obj, i + 1, Append(valid, obj[i].d))

ReturnNone       == [none |-> TRUE, rows |-> <<>>]
ReturnRows(rows) == [none |-> FALSE, rows |-> rows]

parse_comments_json_text(raw_text) ==
    LET obj == json_loads(raw_text)
    IN  IF obj.raised THEN ReturnNone                 \* except ...: return None
        ELSE IF obj.top # "list" THEN ReturnRows(<<>>)  \* not a list: return []
        ELSE ReturnRows(ValidLoop(obj.elems, 1, <<>>))

(***************************************************************************)
(* The table of the pipeline.  A cell is [t, v]; a frame is a sequence of  *)
(* column names and a sequence of rows, each a function column -> cell.    *)
(***************************************************************************)
COLUMN_ORDER ==
    << "video_id", "video_title", "channel_title", "publish_date", "quote" >>

NaN      == [t |-> "nan", v |-> ""]
NaT      == [t |-> "nat", v |-> ""]
Ts(d)    == [t |-> "ts", v |-> d]
IntCell(x)   == [t |-> "int", v |-> x]
FloatCell(x) == [t |-> "float", v |-> x]

Range(s) == { s[i] : i \in DOMAIN s }

RECURSIVE SetToSeq(_)
SetToSeq(A) ==
    IF A = {} THEN <<>>
    ELSE LET a == CHOOSE x \in A : TRUE IN <<a>> \o SetToSeq(A \ {a})

\* pd.DataFrame(all_rows): the union of the dicts' keys; a key a dict lacks is NaN.
DataFrame(rows) ==
    LET keys == UNION { DOMAIN rows[i] : i \in DOMAIN rows }
    IN  [ cols |-> SetToSeq(keys),
          rows |-> [ i \in DOMAIN rows |->
                       [ c \in keys |-> IF c \in DOMAIN rows[i] THEN rows[i][c] ELSE NaN ] ] ]

\* for col in columns: if col not in out.columns: out[col] = ""
FillMissing(df, columns) ==
    LET add == SelectSeq(columns, LAMBDA c : c \notin Range(df.cols))
    IN  [ cols |-> df.cols \o add,
          rows |-> [ i \in DOMAIN df.rows |->
                       [ c \in Range(df.cols) \cup Range(add) |->
                           IF c \in Range(df.cols) THEN df.rows[i][c] ELSE S("") ] ] ]

\* out.reindex(columns=columns)
Reindex(df, columns) ==
    [ cols |-> columns,
      rows |-> [ i \in DOMAIN df.rows |->
                   [ c \in Range(columns) |->
                       IF c \in Range(df.cols) THEN df.rows[i][c] ELSE NaN ] ] ]

ensure_columns(df, columns) == Reindex(FillMissing(df, columns), columns)

\* The timestamps pd.to_datetime parses; everything else is coerced to NaT.
Dates == { "2024-01-01", "2025-01-01" }
DateRank(c) == IF c.t # "ts" THEN 0 ELSE IF c.v = "2024-01-01" THEN 1 ELSE 2

to_datetime(c) == IF c.t = "str" /\ c.v \in Dates THEN Ts(c.v) ELSE NaT

Perms(n) == { p \in [1..n -> 1..n] : \A i, j \in 1..n : p[i] = p[j] => i = j }

\* sort_values("publish_date", ascending=False): descending, NaT last.  The
\* default sort kind is not stable: rows with equal dates come in any order.
sort_values(df) ==
    { [ cols |-> df.cols, rows |-> [ i \in DOMAIN df.rows |-> df.rows[p[i]] ] ] :
        p \in { q \in Perms(Len(df.rows)) :
                  \A i, j \in DOMAIN df.rows :
                     i < j => DateRank(df.rows[q[i]].publish_date)
                                >= DateRank(df.rows[q[j]].publish_date) } }

\* lines 152-157: the normalized batches the run may get from all_rows
Normalize(rows) ==
    LET df == ensure_columns(DataFrame(rows), COLUMN_ORDER)
        dt == [ cols |-> df.cols,
                rows |-> [ i \in DOMAIN df.rows |->
                             [ df.rows[i] EXCEPT !.publish_date = to_datetime(@) ] ] ]
    IN  sort_values(dt)

(***************************************************************************)
(* The master CSV file: [state, cols, lines], a line being the texts of    *)
(* its cells in the header's order.                                        *)
(***************************************************************************)
NoMaster   == [state |-> "absent", cols |-> <<>>, lines |-> <<>>]
\* a file pd.read_csv raises on (a zero-byte file: EmptyDataError)
BadMaster  == [state |-> "unreadable", cols |-> <<>>, lines |-> <<>>]
CsvFile(cols, lines) == [state |-> "table", cols |-> cols, lines |-> lines]

\* The digit strings of the model, and the cell texts read_csv takes as missing.
Numerals == { "123" }
NaTexts  == { "", "nan" }
FloatText(n) == n \o ".0"
FloatTexts == { FloatText(n) : n \in Numerals }
IntPart(x) == IF x \in Numerals THEN x ELSE CHOOSE n \in Numerals : FloatText(n) = x

\* str(value), as astype(str) and to_csv take it
StrOf(c) ==
    CASE c.t = "str"   -> c.v
      [] c.t = "int"   -> c.v
      [] c.t = "float" -> FloatText(c.v)
      [] c.t = "nan"   -> "nan"
      [] c.t = "nat"   -> "NaT"
      [] c.t = "null"  -> "None"
      [] c.t = "ts"    -> c.v \o " 00:00:00+00:00"
      [] c.t = "list"  -> "['" \o c.v \o "']"

\* a cell as to_csv writes it: a missing value is the empty field
CsvText(c) == IF c.t \in { "nan", "nat", "null" } THEN "" ELSE StrOf(c)

\* df.to_csv(target, index=False)
to_csv(df) ==
    CsvFile(df.cols,
            [ i \in DOMAIN df.rows |->
                [ j \in DOMAIN df.cols |-> CsvText(df.rows[i][df.cols[j]]) ] ])

\* pd.read_csv: each column gets the narrowest type all its fields parse as
ColumnType(file, j) ==
    LET texts == { file.lines[i][j] : i \in DOMAIN file.lines }
        given == texts \ NaTexts
    IN  IF given = {} THEN (IF texts = {} THEN "str" ELSE "float")
        ELSE IF given \subseteq Numerals
               THEN (IF given = texts THEN "int" ELSE "float")
        ELSE IF given \subseteq Numerals \cup FloatTexts THEN "float"
        ELSE "str"

ReadCell(file, i, j) ==
    LET x == file.lines[i][j]
        ty == ColumnType(file, j)
    IN  IF x \in NaTexts THEN NaN
        ELSE IF ty = "int" THEN IntCell(x)
        ELSE IF ty = "float" THEN FloatCell(IntPart(x))
        ELSE S(x)

read_csv(file) ==
    [ cols |-> file.cols,
      rows |-> [ i \in DOMAIN file.lines |->
                   [ c \in Range(file.cols) |->
                       ReadCell(file, i, CHOOSE j \in DOMAIN file.cols : file.cols[j] = c) ] ] ]

\* load_master: the file read, or an empty table of the fixed schema
load_master(file) ==
    IF file.state = "table" THEN read_csv(file)
    ELSE [ cols |-> COLUMN_ORDER, rows |-> <<>> ]

\* pd.concat([a, b], ignore_index=True): a's columns, then b's others; NaN fills
concat(a, b) ==
    LET cols == a.cols \o SelectSeq(b.cols, LAMBDA c : c \notin Range(a.cols))
        widen(df, r) == [ c \in Range(cols) |-> IF c \in Range(df.cols) THEN r[c] ELSE NaN ]
    IN  [ cols |-> cols,
          rows |-> [ i \in 1..Len(a.rows) |-> widen(a, a.rows[i]) ]
                   \o [ i \in 1..Len(b.rows) |-> widen(b, b.rows[i]) ] ]

\* combined["quote"] = combined["quote"].astype(str)
QuoteAsStr(df) ==
    [ cols |-> df.cols,
      rows |-> [ i \in DOMAIN df.rows |-> [ df.rows[i] EXCEPT !.quote = S(StrOf(@)) ] ] ]

\* What drop_duplicates compares: Python's == and hash, under which 123 and
\* 123.0 are one value and "123" another; missing values are one value.
HashEq(c) ==
    IF c.t \in { "int", "float" } THEN [t |-> "num", v |-> c.v]
    ELSE IF c.t \in { "nan", "nat", "null" } THEN [t |-> "na", v |-> ""]
    ELSE c

SubsetKey(row) == << HashEq(row.video_id), HashEq(row.quote) >>

\* hashing a list raises TypeError
Unhashable(df) == \E i \in DOMAIN df.rows : df.rows[i].video_id.t = "list"

\* keep="last": a position is kept when no later one has its key
KeepLast(df) ==
    SelectSeq([ i \in DOMAIN df.rows |-> i ],
              LAMBDA i : \A j \in DOMAIN df.rows :
                            j > i => SubsetKey(df.rows[j]) # SubsetKey(df.rows[i]))

\* drop_duplicates(subset=["video_id", "quote"]), keep="first": the positions kept
RECURSIVE KeepLoop(_, _, _, _)
KeepLoop(df, i, keys, out) ==
    IF i > Len(df.rows) THEN out
    ELSE IF SubsetKey(df.rows[i]) \in keys THEN KeepLoop(df, i + 1, keys, out)
    ELSE KeepLoop(df, i + 1, keys \cup { SubsetKey(df.rows[i]) }, Append(out, i))

drop_duplicates(df) == KeepLoop(df, 1, {}, <<>>)

\* the rows at the kept positions, reset_index(drop=True)
Take(df, idx) == [ cols |-> df.cols, rows |-> [ k \in DOMAIN idx |-> df.rows[idx[k]] ] ]

(***************************************************************************)
(* The inputs of Spec: the names and texts of units, the master files a    *)
(* first run may find.                                                     *)
(***************************************************************************)
UnitNames == { "x_COMMENTS.txt", "y_COMMENTS.txt" }

UnitElems ==
    { NonDict("str"),
      Dict([video_id |-> S("a"), quote |-> S("q"), video_title |-> S("OLD")]),
      Dict([video_id |-> S("a"), quote |-> S("q"), video_title |-> S("NEW"),
            publish_date |-> S("2025-01-01")]),
      Dict([video_id |-> S("123"), quote |-> S("q")]),
      Dict([video_id |-> L("a"), quote |-> S("q")]) }

UnitTexts ==
    { BadText(1), BadText(2), TopText("object") }
        \cup { ListText(es) : es \in SeqsUpTo(UnitElems, MaxUnitElems) }

\* a master table written by something else, with columns of its own
ForeignMaster == CsvFile(<< "video_id", "quote", "topic" >>, << << "a", "q", "t" >> >>)

NoFiles == [ n \in UnitNames |-> NoFile ]
NoFrame == [ cols |-> <<>>, rows |-> <<>> ]

ParseOff == p_obj = NoFile /\ p_out = ReturnNone /\ p_pc = "off"
CleanOff == c_raw = <<>> /\ c_once = <<>> /\ c_twice = <<>> /\ c_pc = "off"

Init ==
    /\ in_dir \in { "missing", "file", "dir" }
    /\ files = NoFiles
    /\ debug_dir = FALSE
    /\ debug = NoFiles
    /\ master \in { NoMaster, BadMaster, ForeignMaster }
    /\ pc = "idle"
    /\ todo = <<>> /\ all_rows = <<>> /\ found = <<>> /\ seen = NoFiles
    /\ moved = {} /\ unlinked = {}
    /\ masterBefore = master
    /\ master_df = NoFrame /\ new_df = NoFrame /\ kept = <<>>
    /\ saved = FALSE /\ raisedAt = ""
    /\ arrivals = 0
    /\ ParseOff /\ CleanOff

(***************************************************************************)
(* The environment: a unit file is written into the input directory        *)
(* between runs.                                                           *)
(***************************************************************************)
Arrive ==
    /\ pc = "idle" /\ in_dir = "dir" /\ arrivals < MaxArrivals
    /\ \E n \in UnitNames, t \in UnitTexts :
          /\ files[n] = NoFile
          /\ files' = [files EXCEPT ![n] = t]
    /\ arrivals' = arrivals + 1
    /\ UNCHANGED << in_dir, debug_dir, debug, master, pc, todo, all_rows, found,
                    seen, moved, unlinked, masterBefore, master_df, new_df, kept,
                    saved, raisedAt >>
    /\ UNCHANGED << parseVars, cleanVars >>

(***************************************************************************)
(* main and process_folder.                                                *)
(***************************************************************************)
\* a run starts
StartRun ==
    /\ pc = "idle"
    /\ masterBefore' = master
    /\ UNCHANGED << all_rows, moved, unlinked, master_df, new_df, kept, saved,
                    arrivals, parseVars, cleanVars >>

\* main: if not in_dir.exists(): sys.exit(1)
MainExit ==
    /\ StartRun
    /\ in_dir = "missing"
    /\ pc' = "exit1" /\ raisedAt' = ""
    /\ todo' = <<>> /\ found' = <<>> /\ seen' = NoFiles
    /\ UNCHANGED fsVars

\* debug_dir.mkdir(parents=True, exist_ok=True) under a path that is a file
MkdirRaises ==
    /\ StartRun
    /\ in_dir = "file"
    /\ pc' = "raised" /\ raisedAt' = "mkdir"
    /\ todo' = <<>> /\ found' = <<>> /\ seen' = NoFiles
    /\ UNCHANGED fsVars

\* lines 127-133: the debug directory is made, the glob lists the units (in
\* the directory's order, which is any order)
Scan ==
    /\ StartRun
    /\ in_dir = "dir"
    /\ debug_dir' = TRUE
    /\ LET present == { n \in UnitNames : files[n] # NoFile }
       IN  \E order \in [1..Cardinality(present) -> present] :
              /\ Range(order) = present
              /\ todo' = order /\ found' = order
    /\ seen' = files
    /\ pc' = "loop" /\ raisedAt' = ""
    /\ UNCHANGED << in_dir, files, debug, master >>

\* if not rows (a slip for: rows is None)
IsFalsy(rows) == rows.none \/ rows.rows = <<>>
\* if rows is None
IsNone(rows) == rows.none

\* lines 135-146: one iteration of the loop over files
LoopStep ==
    /\ pc = "loop" /\ todo # <<>>
    /\ LET fp == Head(todo)
           raw == files[fp]                        \* fp.read_text(...)
           rows == parse_comments_json_text(raw)
       IN  IF IsNone(rows)
           THEN \* shutil.move(fp, debug_dir / fp.name): replaces a file there
                /\ debug' = [debug EXCEPT ![fp] = raw]
                /\ files' = [files EXCEPT ![fp] = NoFile]
                /\ moved' = moved \cup { fp }
                /\ UNCHANGED << all_rows, unlinked >>
           ELSE \* all_rows.extend(rows); fp.unlink(missing_ok=True)
                /\ all_rows' = all_rows \o rows.rows
                /\ files' = [files EXCEPT ![fp] = NoFile]
                /\ unlinked' = unlinked \cup { fp }
                /\ UNCHANGED << debug, moved >>
    /\ todo' = Tail(todo)
    /\ UNCHANGED << in_dir, debug_dir, master, pc, found, seen, masterBefore,
                    master_df, new_df, kept, saved, raisedAt, arrivals >>
    /\ UNCHANGED << parseVars, cleanVars >>

NeverEmpty(rows) == FALSE
\* if not all_rows
NothingParsed(rows) == rows = <<>>

\* lines 148-150: nothing to append, return
ReturnEmpty ==
    /\ pc = "loop" /\ todo = <<>>
    /\ NothingParsed(all_rows)
    /\ pc' = "done"
    /\ UNCHANGED << in_dir, files, debug_dir, debug, master, todo, all_rows,
                    found, seen, moved, unlinked, masterBefore, master_df, new_df,
                    kept, saved, raisedAt, arrivals >>
    /\ UNCHANGED << parseVars, cleanVars >>

\* the steps of lines 152-166 up to the point that may raise
MergeFrom(batch) == QuoteAsStr(concat(load_master(master), batch))

\* lines 152-160: pd.read_csv raises on the master file
LoadRaises ==
    /\ pc = "loop" /\ todo = <<>>
    /\ ~NothingParsed(all_rows)
    /\ master.state = "unreadable"
    /\ \E batch \in Normalize(all_rows) : new_df' = batch
    /\ pc' = "raised" /\ raisedAt' = "load"
    /\ UNCHANGED << in_dir, files, debug_dir, debug, master, todo, all_rows,
                    found, seen, moved, unlinked, masterBefore, master_df, kept,
                    saved, arrivals >>
    /\ UNCHANGED << parseVars, cleanVars >>

\* lines 152-164: drop_duplicates raises on a video_id it cannot hash
DedupeRaises ==
    /\ pc = "loop" /\ todo = <<>>
    /\ ~NothingParsed(all_rows)
    /\ master.state # "unreadable"
    /\ \E batch \in Normalize(all_rows) :
          /\ Unhashable(MergeFrom(batch))
          /\ new_df' = batch
    /\ master_df' = load_master(master)
    /\ pc' = "raised" /\ raisedAt' = "dedupe"
    /\ UNCHANGED << in_dir, files, debug_dir, debug, master, todo, all_rows,
                    found, seen, moved, unlinked, masterBefore, kept, saved,
                    arrivals >>
    /\ UNCHANGED << parseVars, cleanVars >>

\* lines 152-166: normalize, load, concat, dedupe, save
Merge ==
    /\ pc = "loop" /\ todo = <<>>
    /\ ~NothingParsed(all_rows)
    /\ master.state # "unreadable"
    /\ \E batch \in Normalize(all_rows) :
          LET combined == MergeFrom(batch)
              idx == drop_duplicates(combined)
          IN  /\ ~Unhashable(combined)
              /\ new_df' = batch
              /\ kept' = idx
              /\ master' = to_csv(Take(combined, idx))     \* save_master
    /\ master_df' = load_master(master)
    /\ saved' = TRUE
    /\ pc' = "done"
    /\ UNCHANGED << in_dir, files, debug_dir, debug, todo, all_rows, found, seen,
                    moved, unlinked, masterBefore, raisedAt, arrivals >>
    /\ UNCHANGED << parseVars, cleanVars >>

\* the process ends: what the run held in memory is gone
Exit ==
    /\ pc \in { "done", "exit1", "raised" }
    /\ pc' = "idle"
    /\ todo' = <<>> /\ all_rows' = <<>> /\ found' = <<>> /\ seen' = NoFiles
    /\ moved' = {} /\ unlinked' = {}
    /\ masterBefore' = master
    /\ master_df' = NoFrame /\ new_df' = NoFrame /\ kept' = <<>>
    /\ saved' = FALSE /\ raisedAt' = ""
    /\ UNCHANGED << fsVars, arrivals, parseVars, cleanVars >>

Next ==
    \/ Arrive
    \/ MainExit
    \/ MkdirRaises
    \/ Scan
    \/ LoopStep
    \/ ReturnEmpty
    \/ LoadRaises
    \/ DedupeRaises
    \/ Merge
    \/ Exit

Spec == Init /\ [][Next]_vars

(***************************************************************************)
(* Properties of runs (Spec).                                              *)
(***************************************************************************)
\* The notions the properties are stated in.
Fatal(text) == text.syntax = "bad"
Admissible(e) == e.kind = "dict" /\ { "video_id", "quote" } \subseteq DOMAIN e.d
AdmittedOf(text) ==
    IF text.syntax = "ok" /\ text.top = "list"
    THEN LET sel == SelectSeq(text.elems, Admissible)
         IN  [ i \in DOMAIN sel |-> sel[i].d ]
    ELSE <<>>

NumProcessed == Len(found) - Len(todo)
Processed == { found[i] : i \in 1..NumProcessed }

RECURSIVE Contributions(_)
Contributions(k) ==
    IF k = 0 THEN <<>> ELSE Contributions(k - 1) \o AdmittedOf(seen[found[k]])

ColumnOf(file, c) == CHOOSE j \in DOMAIN file.cols : file.cols[j] = c
Position(idx, i) == CHOOSE k \in DOMAIN idx : idx[k] = i
Persisted == pc = "done" /\ saved

\* C1: a unit whose text is not JSON is moved to the debug directory with its
\* text, is not deleted and adds no rows; any other unit is deleted and not
\* moved; all_rows holds the admitted records of the deleted units in the
\* order they were processed; once the loop is over every unit the glob
\* found is moved or deleted, and not both.
C1_Routing ==
    /\ \A n \in Processed :
          IF Fatal(seen[n])
          THEN n \in moved /\ n \notin unlinked /\ files[n] = NoFile /\ debug[n] = seen[n]
          ELSE n \in unlinked /\ n \notin moved /\ files[n] = NoFile /\ debug[n] # seen[n]
    /\ all_rows = Contributions(NumProcessed)
    /\ (pc \in { "done", "raised" } =>
          /\ moved \cup unlinked = Range(found)
          /\ moved \cap unlinked = {})

\* a run that moved a unit that is not JSON and deleted one that is not a list
C1_Witness ==
    /\ pc = "done"
    /\ \E n \in moved : Fatal(seen[n])
    /\ \E n \in unlinked : seen[n].top = "object"

\* C4: a run that admitted no record ends with the master file as it found
\* it (absent stays absent) and without having saved; its units are gone
\* from the input directory all the same.
C4_NoOpOnEmpty ==
    (pc = "done" /\ \A i \in DOMAIN found : AdmittedOf(seen[found[i]]) = <<>>)
        => /\ master = masterBefore
           /\ ~saved
           /\ \A i \in DOMAIN found : files[found[i]] = NoFile

\* a run over a list whose elements are all rejected, with no master file
C4_Witness ==
    /\ pc = "done" /\ ~saved
    /\ masterBefore = NoMaster /\ master = NoMaster
    /\ \E n \in unlinked : seen[n].top = "list" /\ seen[n].elems # <<>>
                             /\ AdmittedOf(seen[n]) = <<>>

\* the key of a row of the loaded master or of the batch
RowKey(r) == << r.video_id, StrOf(r.quote) >>

\* C3: in a merge, (1) the first loaded master row of each key is kept, and
\* the saved line carries what the master file held in every column but
\* quote; (2) a batch row whose key a master row has is dropped; (3) of the
\* batch rows with a key no master row has, exactly the first in the
\* normalized batch's order is kept.
C3_MasterWins ==
    Persisted =>
        LET m == Len(master_df.rows)
            n == Len(new_df.rows)
            mkey(i) == RowKey(master_df.rows[i])
            bkey(b) == RowKey(new_df.rows[b])
        IN  /\ \A i \in 1..m :
                  (\A j \in 1..(i - 1) : mkey(j) # mkey(i)) =>
                      /\ i \in Range(kept)
                      /\ \A c \in Range(master_df.cols) \ { "quote" } :
                            master.lines[Position(kept, i)][ColumnOf(master, c)]
                               = masterBefore.lines[i][ColumnOf(masterBefore, c)]
            /\ \A b \in 1..n :
                  IF \E i \in 1..m : mkey(i) = bkey(b)
                  THEN (m + b) \notin Range(kept)
                  ELSE (m + b) \in Range(kept) <=> \A a \in 1..(b - 1) : bkey(a) # bkey(b)

\* a master row titled OLD met a batch row of its key titled NEW
C3_Witness ==
    /\ Persisted
    /\ \E i \in DOMAIN master_df.rows, b \in DOMAIN new_df.rows :
          /\ RowKey(master_df.rows[i]) = RowKey(new_df.rows[b])
          /\ "video_title" \in Range(master_df.cols)
          /\ master_df.rows[i].video_title = S("OLD")
          /\ new_df.rows[b].video_title = S("NEW")
          /\ master.lines[Position(kept, i)][ColumnOf(master, "video_title")] = "OLD"

\* C2: a saved master file has no two lines with the same video_id and quote.
C2_NoDuplicateKeys ==
    Persisted =>
        \A i, j \in DOMAIN master.lines :
            i # j => \/ master.lines[i][ColumnOf(master, "video_id")]
                          # master.lines[j][ColumnOf(master, "video_id")]
                     \/ master.lines[i][ColumnOf(master, "quote")]
                          # master.lines[j][ColumnOf(master, "quote")]

\* C7: a saved master file has the fixed schema's columns in the fixed order,
\* and so has every normalized batch.
C7_FixedSchema ==
    Persisted =>
        /\ new_df.cols = COLUMN_ORDER
        /\ \A i \in DOMAIN new_df.rows : DOMAIN new_df.rows[i] = Range(COLUMN_ORDER)
        /\ master.cols = COLUMN_ORDER

\* C8: a file of the debug directory keeps its content.
C8_QuarantineKept ==
    [][ \A n \in UnitNames : debug[n] # NoFile => debug'[n] = debug[n] ]_vars

\* C10: at the end of a run, every record admitted from a unit the run
\* deleted has its (video_id, quote) on a line of the master file.
C10_NoRecordLost ==
    pc \in { "done", "raised" } =>
        \A n \in unlinked : \A k \in DOMAIN AdmittedOf(seen[n]) :
            LET rec == AdmittedOf(seen[n])[k]
            IN  /\ master.state = "table"
                /\ \E i \in DOMAIN master.lines :
                      /\ master.lines[i][ColumnOf(master, "video_id")] = CsvText(rec.video_id)
                      /\ master.lines[i][ColumnOf(master, "quote")] = StrOf(rec.quote)

\* C6: a run ends early (exit status 1, or an exception nothing catches)
\* only when the input directory is missing, and then before any work.
C6_OnlyMissingDirAborts ==
    pc \in { "exit1", "raised" } =>
        /\ in_dir = "missing"
        /\ ~debug_dir /\ master = masterBefore /\ found = <<>>

(***************************************************************************)
(* SpecParse: parse_comments_json_text on every text of ParseTexts.        *)
(***************************************************************************)
ParseElems ==
    { NonDict("str"),
      NonDict("list"),
      Dict(<<>>),
      Dict([video_id |-> S("a")]),
      Dict([quote |-> S("q")]),
      Dict([video_id |-> S("a"), quote |-> S("q")]),
      Dict([video_id |-> S(""), quote |-> Null]),
      Dict([video_id |-> S("b"), quote |-> S("q"), video_title |-> S("T"),
            topic |-> S("t")]) }

ParseTexts ==
    { BadText(1), TopText("object"), TopText("scalar") }
        \cup { ListText(es) : es \in SeqsUpTo(ParseElems, MaxElems) }

PipeOff ==
    /\ in_dir = "dir" /\ files = NoFiles /\ debug_dir = FALSE /\ debug = NoFiles
    /\ master = NoMaster /\ pc = "off"
    /\ todo = <<>> /\ all_rows = <<>> /\ found = <<>> /\ seen = NoFiles
    /\ moved = {} /\ unlinked = {} /\ masterBefore = NoMaster
    /\ master_df = NoFrame /\ new_df = NoFrame /\ kept = <<>>
    /\ saved = FALSE /\ raisedAt = "" /\ arrivals = 0

InitParse ==
    /\ p_obj \in ParseTexts /\ p_out = ReturnNone /\ p_pc = "in"
    /\ PipeOff /\ CleanOff

ParseCall ==
    /\ p_pc = "in"
    /\ p_out' = parse_comments_json_text(p_obj)
    /\ p_pc' = "out"
    /\ UNCHANGED << p_obj, pipeVars, cleanVars >>

NextParse == ParseCall

SpecParse == InitParse /\ [][NextParse]_vars

\* the positions of the admissible elements of a list, and the k-th of them
AdmissibleAt(es) == { i \in DOMAIN es : Admissible(es[i]) }
NthAdmissible(es, k) ==
    CHOOSE i \in AdmissibleAt(es) : Cardinality({ j \in AdmissibleAt(es) : j <= i }) = k

\* C5: on a text that parses to a list, the result is not None and is the
\* list's elements that are dicts with both video_id and quote, each once,
\* in the list's order, whatever the values and whatever the other elements.
C5_AdmittedExactly ==
    (p_pc = "out" /\ p_obj.syntax = "ok" /\ p_obj.top = "list") =>
        /\ ~p_out.none
        /\ Len(p_out.rows) = Cardinality(AdmissibleAt(p_obj.elems))
        /\ \A k \in DOMAIN p_out.rows :
              p_out.rows[k] = p_obj.elems[NthAdmissible(p_obj.elems, k)].d

\* a record, then a dict without quote, then a dict without video_id: one row
C5_Witness ==
    /\ p_pc = "out" /\ p_obj.top = "list" /\ Len(p_obj.elems) = 3
    /\ Admissible(p_obj.elems[1])
    /\ p_obj.elems[2].kind = "dict" /\ DOMAIN p_obj.elems[2].d = { "video_id" }
    /\ p_obj.elems[3].kind = "dict" /\ DOMAIN p_obj.elems[3].d = { "quote" }
    /\ Len(p_out.rows) = 1 /\ p_out.rows[1] = p_obj.elems[1].d

(***************************************************************************)
(* clean_json_text.  A text is a sequence of code points.                  *)
(***************************************************************************)
\* what \s and str.strip() take as whitespace
IsSpace(c) ==
    c \in { 9, 10, 11, 12, 13, 28, 29, 30, 31, 32, 133, 160, 5760 }
            \cup (8192..8202) \cup { 8232, 8233, 8239, 8287, 12288 }

\* [\x00-\x08\x0B\x0C\x0E-\x1F\x7F]
IsControl(c) == c \in (0..8) \cup { 11, 12 } \cup (14..31) \cup { 127 }

\* re.IGNORECASE, on the ASCII letters
Lower(c) == IF c \in 65..90 THEN c + 32 ELSE c

FenceOpen  == << 96, 96, 96, 106, 115, 111, 110 >>     \* ```json
FenceClose == << 96, 96, 96 >>                         \* ```

StartsWith(t, i, pat) ==
    /\ i + Len(pat) - 1 <= Len(t)
    /\ \A k \in DOMAIN pat : Lower(t[i + k - 1]) = pat[k]

RECURSIVE SkipSpace(_, _)
SkipSpace(t, i) == IF i <= Len(t) /\ IsSpace(t[i]) THEN SkipSpace(t, i + 1) ELSE i

\* re.sub(r"^```json\s*", "", raw_text, flags=re.IGNORECASE | re.MULTILINE)
RECURSIVE StripFenceOpen(_, _)
StripFenceOpen(t, i) ==
    IF i > Len(t) THEN <<>>
    ELSE IF (i = 1 \/ t[i - 1] = 10) /\ StartsWith(t, i, FenceOpen)
         THEN StripFenceOpen(t, SkipSpace(t, i + Len(FenceOpen)))
         ELSE << t[i] >> \o StripFenceOpen(t, i + 1)

\* re.sub(r"```$", "", raw_text, flags=re.MULTILINE)
RECURSIVE StripFenceClose(_, _)
StripFenceClose(t, i) ==
    IF i > Len(t) THEN <<>>
    ELSE IF /\ StartsWith(t, i, FenceClose)
            /\ (i + Len(FenceClose) > Len(t) \/ t[i + Len(FenceClose)] = 10)
         THEN StripFenceClose(t, i + Len(FenceClose))
         ELSE << t[i] >> \o StripFenceClose(t, i + 1)

RECURSIVE LStrip(_)
LStrip(t) == IF t # <<>> /\ IsSpace(Head(t)) THEN LStrip(Tail(t)) ELSE t

RECURSIVE RStrip(_)
RStrip(t) ==
    IF t # <<>> /\ IsSpace(t[Len(t)]) THEN RStrip(SubSeq(t, 1, Len(t) - 1)) ELSE t

\* re.sub(r"^\s|\s$", "", raw_text): one whitespace character at each end
StripOne(t) ==
    LET l == IF t # <<>> /\ IsSpace(Head(t)) THEN Tail(t) ELSE t
    IN  IF l # <<>> /\ IsSpace(l[Len(l)]) THEN SubSeq(l, 1, Len(l) - 1) ELSE l

\* .strip()
Strip(t) == RStrip(LStrip(t))

\* re.sub(r",\s*([}\]])", r"\1", raw_text)
RECURSIVE FixTrailingCommas(_, _)
FixTrailingCommas(t, i) ==
    IF i > Len(t) THEN <<>>
    ELSE LET j == SkipSpace(t, i + 1)
         IN  IF t[i] = 44 /\ j <= Len(t) /\ t[j] \in { 93, 125 }
             THEN << t[j] >> \o FixTrailingCommas(t, j + 1)
             ELSE << t[i] >> \o FixTrailingCommas(t, i + 1)

\* re.sub(r"[\x00-\x08\x0B\x0C\x0E-\x1F\x7F]", "", raw_text)
DropControls(t) == SelectSeq(t, LAMBDA c : ~IsControl(c))

\* The entries of html.entities.html5 whose names are written with the
\* letters of the model's texts (a j m n o p s): amp amp; ap; apos; map; mp;
\* nap; napos; pm;
Html5Names ==
    { << 97, 109, 112 >>, << 97, 109, 112, 59 >>, << 97, 112, 59 >>,
      << 97, 112, 111, 115, 59 >>, << 109, 97, 112, 59 >>, << 109, 112, 59 >>,
      << 110, 97, 112, 59 >>, << 110, 97, 112, 111, 115, 59 >>, << 112, 109, 59 >> }

Html5(name) ==
    CASE name = << 97, 109, 112 >>               -> << 38 >>
      [] name = << 97, 109, 112, 59 >>           -> << 38 >>
      [] name = << 97, 112, 59 >>                -> << 8776 >>
      [] name = << 97, 112, 111, 115, 59 >>      -> << 39 >>
      [] name = << 109, 97, 112, 59 >>           -> << 8614 >>
      [] name = << 109, 112, 59 >>               -> << 8723 >>
      [] name = << 110, 97, 112, 59 >>           -> << 8777 >>
      [] name = << 110, 97, 112, 111, 115, 59 >> -> << 329 >>
      [] name = << 112, 109, 59 >>               -> << 177 >>

\* [^\t\n\f <&#;]
InName(c) == c \notin { 9, 10, 12, 32, 60, 38, 35, 59 }

\* the end of [^\t\n\f <&#;]{1,32} from position i: the last position matched
RECURSIVE NameEnd(_, _, _)
NameEnd(t, i, n) ==
    IF n < 32 /\ i <= Len(t) /\ InName(t[i]) THEN NameEnd(t, i + 1, n + 1) ELSE i - 1

\* _replace_charref, for a named reference
RECURSIVE LongestPrefix(_, _)
LongestPrefix(s, x) ==
    IF x <= 1 THEN << 38 >> \o s
    ELSE IF SubSeq(s, 1, x) \in Html5Names
         THEN Html5(SubSeq(s, 1, x)) \o SubSeq(s, x + 1, Len(s))
         ELSE LongestPrefix(s, x - 1)

ReplaceCharref(s) ==
    IF s \in Html5Names THEN Html5(s) ELSE LongestPrefix(s, Len(s) - 1)

\* html.unescape(raw_text); the texts of the model hold no '#', so no
\* numeric reference
RECURSIVE Unescape(_, _)
Unescape(t, i) ==
    IF i > Len(t) THEN <<>>
    ELSE IF t[i] = 38 /\ NameEnd(t, i + 1, 0) > i
         THEN LET e == NameEnd(t, i + 1, 0)
                  last == IF e + 1 <= Len(t) /\ t[e + 1] = 59 THEN e + 1 ELSE e
              IN  ReplaceCharref(SubSeq(t, i + 1, last)) \o Unescape(t, last + 1)
         ELSE << t[i] >> \o Unescape(t, i + 1)

\* .encode("latin1", errors="ignore"): one byte per character up to U+00FF
EncodeLatin1(t) == SelectSeq(t, LAMBDA c : c <= 255)

IsCont(b, i) == i <= Len(b) /\ b[i] \in 128..191

\* the length of the well-formed UTF-8 sequence at position i, 0 if none
Utf8Len(b, i) ==
    LET c == b[i]
    IN  IF c < 128 THEN 1
        ELSE IF c \in 194..223 /\ IsCont(b, i + 1) THEN 2
        ELSE IF /\ c \in 224..239 /\ IsCont(b, i + 1) /\ IsCont(b, i + 2)
                /\ (c = 224 => b[i + 1] >= 160)
                /\ (c = 237 => b[i + 1] <= 159) THEN 3
        ELSE IF /\ c \in 240..244 /\ IsCont(b, i + 1) /\ IsCont(b, i + 2)
                /\ IsCont(b, i + 3)
                /\ (c = 240 => b[i + 1] >= 144)
                /\ (c = 244 => b[i + 1] <= 143) THEN 4
        ELSE 0

Utf8Char(b, i, n) ==
    CASE n = 1 -> b[i]
      [] n = 2 -> (b[i] - 192) * 64 + (b[i + 1] - 128)
      [] n = 3 -> (b[i] - 224) * 4096 + (b[i + 1] - 128) * 64 + (b[i + 2] - 128)
      [] n = 4 -> (b[i] - 240) * 262144 + (b[i + 1] - 128) * 4096
                    + (b[i + 2] - 128) * 64 + (b[i + 3] - 128)

\* .decode("utf-8", errors="ignore"): a byte that starts no well-formed
\* sequence is dropped
RECURSIVE DecodeUtf8(_, _)
DecodeUtf8(b, i) ==
    IF i > Len(b) THEN <<>>
    ELSE LET n == Utf8Len(b, i)
         IN  IF n = 0 THEN DecodeUtf8(b, i + 1)
             ELSE << Utf8Char(b, i, n) >> \o DecodeUtf8(b, i + n)

clean_json_text(raw_text) ==
    LET t1 == StripFenceOpen(raw_text, 1)
        t2 == Strip(StripFenceClose(t1, 1))
        t3 == FixTrailingCommas(t2, 1)
        t4 == DropControls(t3)
        t5 == Unescape(t4, 1)
    IN  DecodeUtf8(EncodeLatin1(t5), 1)

(***************************************************************************)
(* SpecClean: clean_json_text, and clean_json_text of the result, on every *)
(* text made of at most MaxTokens of the tokens below.                     *)
(***************************************************************************)
Tokens ==
    { << 97 >>,                  \* a
      << 32 >>,                  \* space
      << 10 >>,                  \* newline
      << 44 >>,                  \* ,
      << 93 >>,                  \* ]
      << 1 >>,                   \* U+0001, a control character
      << 38 >>,                  \* &
      << 97, 109, 112, 59 >>,    \* amp;
      << 195 >>,                 \* U+00C3
      << 169 >>,                 \* U+00A9
      << 233 >>,                 \* U+00E9
      << 8364 >>,                \* U+20AC
      FenceOpen,
      FenceClose }

RECURSIVE Texts(_)
Texts(n) ==
    IF n = 0 THEN { <<>> }
    ELSE LET shorter == Texts(n - 1)
         IN  shorter \cup { s \o k : s \in shorter, k \in Tokens }

InitClean ==
    /\ c_raw \in Texts(MaxTokens) /\ c_once = <<>> /\ c_twice = <<>> /\ c_pc = "in"
    /\ PipeOff /\ ParseOff

CleanCall ==
    /\ c_pc = "in"
    /\ c_once' = clean_json_text(c_raw)
    /\ c_twice' = clean_json_text(clean_json_text(c_raw))
    /\ c_pc' = "out"
    /\ UNCHANGED << c_raw, pipeVars, parseVars >>

NextClean == CleanCall

SpecClean == InitClean /\ [][NextClean]_vars

\* a text with a code fence marker, and a text with a comma before a closer
HasFence(t) == \E i \in DOMAIN t : StartsWith(t, i, FenceClose)
HasTrailingComma(t) ==
    \E i \in DOMAIN t :
        /\ t[i] = 44
        /\ \E j \in (i + 1)..Len(t) :
              /\ t[j] \in { 93, 125 }
              /\ \A k \in (i + 1)..(j - 1) : IsSpace(t[k])

\* only ASCII characters, none of them a control character or '&'
Plain(t) == \A i \in DOMAIN t : t[i] < 128 /\ ~IsControl(t[i]) /\ t[i] # 38

\* C9, as stated: on a text without code fences or trailing commas, cleaning
\* the cleaned text gives the cleaned text.
C9_Idempotent ==
    (c_pc = "out" /\ ~HasFence(c_raw) /\ ~HasTrailingComma(c_raw)) => c_twice = c_once

\* C9, amended: on a text without code fences or trailing commas that holds
\* only ASCII characters, no control character and no '&', cleaning the
\* cleaned text gives the cleaned text.
C9_IdempotentOnPlain ==
    (c_pc = "out" /\ ~HasFence(c_raw) /\ ~HasTrailingComma(c_raw) /\ Plain(c_raw))
        => c_twice = c_once

\* such a text that cleaning shortens and does not empty
C9_Witness ==
    /\ c_pc = "out" /\ ~HasFence(c_raw) /\ ~HasTrailingComma(c_raw) /\ Plain(c_raw)
    /\ c_once # c_raw /\ c_once # <<>>
====
